---- MODULE Spec2Model ----
(***************************************************************************)
(* Model of src/aks.go: the "xks" wrapper around the Azure `az` CLI.       *)
(*                                                                         *)
(* The source file holds three distinct programs (a fourth is a verbatim   *)
(* copy of the first):                                                     *)
(*   "cli"    lines   1-226 (copied at 613-837): cobra commands auth, sub, *)
(*            status, invoke; one command per process run;                 *)
(*   "script" lines 228-382: a straight-line main (login, subscription,    *)
(*            status, `az aks list`);                                      *)
(*   "sdk"    lines 392-600: SDK login, guarded setSubscription and        *)
(*            getSubscription, status, then the invoke hook.               *)
(* A run of the model is one process run of one of them.                   *)
(*                                                                         *)
(* Strings.  Paths, words and credentials are TLA+ strings; a command line *)
(* is the sequence of the string pieces the code concatenates; text that   *)
(* the code parses (the output of `az account show`, subscription ids) is  *)
(* a sequence of one-character strings.                                    *)
(***************************************************************************)
EXTENDS Integers, Sequences, FiniteSets, TLC

VARIABLES
    variant,        \* which of the three programs runs
    subcommand,     \* the cobra command selected on the command line
    args,           \* the positional arguments after the command
    env,            \* the process environment (os.Getenv)
    subFlag,        \* value of the invoke flag --subscription
    fs,             \* the working directory tree
    azFormat,       \* output format the external az is configured with
    azActive,       \* the external az's active subscription
    pc,             \* position of main
    appID, clientSecret, tenantID,   \* credential globals
    loggedIn,       \* the logged-in flag
    currentSubID,   \* the session's subscription identifier
    resourceGroup, aksName,          \* resource group and cluster name used
    files,          \* the list the invoke handler got from discoverFiles
    fullCommand,    \* the assembled command line, as its pieces
    scans,          \* history: the result of every discoverFiles call
    trace,          \* history: subprocesses run and errors returned
    reported,       \* subscription printed by the status step, once printed
    exitCode        \* the process exit code, once pc = "exited"

vars == <<variant, subcommand, args, env, subFlag, fs, azFormat, azActive, pc,
          appID, clientSecret, tenantID, loggedIn, currentSubID,
          resourceGroup, aksName, files, fullCommand, scans, trace,
          reported, exitCode>>

(***************************************************************************)
(* Bounds of the model.                                                    *)
(***************************************************************************)
MaxEntries == 3     \* entries (files and directories) below the working directory
MaxArgs == 2        \* positional arguments of invoke
MaxScans == 2       \* discovery runs in the discovery harness
MaxCalls == 2       \* calls of the guarded operations in their harness

(***************************************************************************)
(* Generic helpers.                                                        *)
(***************************************************************************)
Range(s) == {s[i] : i \in 1..Len(s)}

NoDuplicates(s) == \A i, j \in 1..Len(s) : s[i] = s[j] => i = j

(***************************************************************************)
(* The working directory.  A node is a file or a directory; a directory is *)
(* readable (ok) or not (permission denied, or gone), and maps the names   *)
(* of its entries to nodes.  NameOrder is the lexical order of the names,  *)
(* in which both os.ReadDir and filepath.Walk deliver entries.             *)
(***************************************************************************)
NameOrder == <<"a", "b">>

Names == Range(NameOrder)

NoKids == [n \in {} |-> 0]

FileNode == [kind |-> "file", ok |-> TRUE, kids |-> NoKids]

DirNode(ok, kids) == [kind |-> "dir", ok |-> ok, kids |-> kids]

DirsOver(S) ==
    {DirNode(TRUE, k) : k \in UNION {[D -> S] : D \in SUBSET Names}}
        \cup {DirNode(FALSE, NoKids)}

Level2 == {FileNode} \cup DirsOver({FileNode})

Level1 == {FileNode} \cup DirsOver(Level2)

RECURSIVE Size(_), SizeFrom(_, _)
SizeFrom(node, i) ==
    IF i > Len(NameOrder) THEN 0
    ELSE (IF NameOrder[i] \in DOMAIN node.kids
          THEN 1 + Size(node.kids[NameOrder[i]]) ELSE 0) + SizeFrom(node, i + 1)

Size(node) == SizeFrom(node, 1)

Trees == {t \in DirsOver(Level1) : Size(t) <= MaxEntries}

(***************************************************************************)
(* Paths.  filepath.Join cleans its result, so joining "." and a name      *)
(* gives the bare name.                                                    *)
(***************************************************************************)
PathSeparator == "/"

Join(dir, name) == IF dir = "." THEN name ELSE dir \o PathSeparator \o name

(***************************************************************************)
(* discoverFiles, recursive variant (lines 110-125, repeated verbatim at   *)
(* 320-336 and 722-737).  walk is path/filepath's walk: the callback is    *)
(* called on every entry, on a directory together with the error of        *)
(* reading it, and the first error the callback returns ends the walk.     *)
(* acc is what the callback's closure holds: the files appended so far and *)
(* whether an error was returned.                                          *)
(***************************************************************************)
StaleFiles == IF scans = <<>> THEN <<>> ELSE scans[Len(scans)].files

InitialFiles == <<>>

WalkFunc(dirPath, path, node, err, acc) ==
    IF err THEN [acc EXCEPT !.err = TRUE]
    ELSE IF node.kind # "dir" /\ path # dirPath \o PathSeparator
         THEN [acc EXCEPT !.files = Append(@, path)]
         ELSE acc

RECURSIVE walk(_, _, _, _), walkNames(_, _, _, _, _)
walk(dirPath, path, node, acc) ==
    IF node.kind # "dir" THEN WalkFunc(dirPath, path, node, FALSE, acc)
    ELSE LET acc1 == WalkFunc(dirPath, path, node, ~node.ok, acc)
         IN  IF ~node.ok \/ acc1.err THEN acc1
             ELSE walkNames(dirPath, path, node, 1, acc1)

walkNames(dirPath, path, node, i, acc) ==
    IF i > Len(NameOrder) \/ acc.err THEN acc
    ELSE IF NameOrder[i] \notin DOMAIN node.kids
         THEN walkNames(dirPath, path, node, i + 1, acc)
         ELSE walkNames(dirPath, path, node, i + 1,
                        walk(dirPath, Join(path, NameOrder[i]),
                             node.kids[NameOrder[i]], acc))

discoverFilesWalkPartial(dirPath, root) ==
    walk(dirPath, dirPath, root, [files |-> InitialFiles, err |-> FALSE])

discoverFilesWalk(dirPath, root) ==
    LET r == walk(dirPath, dirPath, root, [files |-> InitialFiles, err |-> FALSE])
    IN  IF r.err THEN [files |-> <<>>, err |-> TRUE] ELSE r

(***************************************************************************)
(* discoverFiles, flat variant (lines 585-600): one os.ReadDir of the      *)
(* directory, keeping the entries that are not directories.                *)
(***************************************************************************)
RECURSIVE readDirLoop(_, _, _, _)
readDirLoop(dir, root, i, out) ==
    IF i > Len(NameOrder) THEN out
    ELSE IF NameOrder[i] \in DOMAIN root.kids
            /\ root.kids[NameOrder[i]].kind # "dir"
         THEN readDirLoop(dir, root, i + 1, Append(out, Join(dir, NameOrder[i])))
         ELSE readDirLoop(dir, root, i + 1, out)

discoverFilesReadDirRejectsEmpty(dir, root) ==
    IF ~root.ok \/ readDirLoop(dir, root, 1, <<>>) = <<>>
    THEN [files |-> <<>>, err |-> TRUE]
    ELSE [files |-> readDirLoop(dir, root, 1, <<>>), err |-> FALSE]

discoverFilesReadDir(dir, root) ==
    IF ~root.ok THEN [files |-> <<>>, err |-> TRUE]
    ELSE [files |-> readDirLoop(dir, root, 1, <<>>), err |-> FALSE]

(***************************************************************************)
(* The discovery routine each program calls, always on ".", and the entry  *)
(* of the history variable scans for one call of it.                       *)
(***************************************************************************)
Routine(v) == IF v = "sdk" THEN "ReadDir" ELSE "Walk"

discoverFiles(v, root) ==
    IF Routine(v) = "ReadDir" THEN discoverFilesReadDir(".", root)
    ELSE discoverFilesWalk(".", root)

ScanRecord(routine, d) == [routine |-> routine, files |-> d.files, err |-> d.err]

(***************************************************************************)
(* Text the code parses: sequences of one-character strings.               *)
(***************************************************************************)
NoSub == <<>>

SubDefault == <<"s", "0">>

SubEnv == <<"s", "1">>

SubOverride == <<"s", "2">>

Newline == "\n"

Contains(s, sub) ==
    \E i \in 1..(Len(s) - Len(sub) + 1) : SubSeq(s, i, i + Len(sub) - 1) = sub

RECURSIVE SplitFrom(_, _, _, _)
SplitFrom(s, sep, i, cur) ==
    IF i > Len(s) THEN <<cur>>
    ELSE IF s[i] = sep THEN <<cur>> \o SplitFrom(s, sep, i + 1, <<>>)
         ELSE SplitFrom(s, sep, i + 1, Append(cur, s[i]))

Split(s, sep) == SplitFrom(s, sep, 1, <<>>)

IsSpace(c) == c \in {" ", "\t", "\n", "\r"}

RECURSIVE TrimLeft(_), TrimRight(_)
TrimLeft(s) == IF s # <<>> /\ IsSpace(Head(s)) THEN TrimLeft(Tail(s)) ELSE s

TrimRight(s) ==
    IF s # <<>> /\ IsSpace(s[Len(s)]) THEN TrimRight(SubSeq(s, 1, Len(s) - 1)) ELSE s

TrimSpace(s) == TrimRight(TrimLeft(s))

(***************************************************************************)
(* The external az, as far as the programs observe it.  `az account show`  *)
(* prints the account of the active subscription in the configured output  *)
(* format: YAML (one `key: value` per line) or JSON.                       *)
(***************************************************************************)
AzFormats == {"yaml", "json"}

AzAccountShow(active, format) ==
    IF format = "yaml"
    THEN <<"h", "I", "d", ":", " ", "t", "n", Newline>>
            \o <<"i", "d", ":", " ">> \o active \o <<Newline>>
            \o <<"t", "I", "d", ":", " ", "t", "n", Newline>>
    ELSE <<"{", Newline>>
            \o <<" ", "\"", "i", "d", "\"", ":", " ", "\"">> \o active
            \o <<"\"", ",", Newline, "}", Newline>>

(***************************************************************************)
(* getSubscriptionID's parse of that output (lines 86-94, 296-304).        *)
(***************************************************************************)
FieldAfterColonWrong(line) == TrimSpace(Split(line, ":")[1])

FieldAfterColon(line) == TrimSpace(Split(line, ":")[2])

RECURSIVE ExtractFrom(_, _)
ExtractFrom(lines, i) ==
    IF i > Len(lines) THEN [err |-> TRUE, subID |-> NoSub]
    ELSE IF Contains(lines[i], <<"i", "d", ":">>)
         THEN [err |-> FALSE, subID |-> FieldAfterColon(lines[i])]
         ELSE ExtractFrom(lines, i + 1)

ExtractSubscriptionID(output) == ExtractFrom(Split(output, Newline), 1)

(***************************************************************************)
(* Events of the history variable trace.                                   *)
(***************************************************************************)
Exec(what, arg) == [ev |-> "exec", what |-> what, arg |-> arg]

Error(what) == [ev |-> "error", what |-> what, arg |-> <<>>]

ScanEvent == [ev |-> "scan", what |-> "discoverFiles", arg |-> <<>>]

Subprocesses(tr) == SelectSeq(tr, LAMBDA e : e.ev = "exec")

(***************************************************************************)
(* Credentials.                                                            *)
(***************************************************************************)
MissingCredentialsForgetsTenant(e) == e.appId = "" \/ e.secret = ""

MissingCredentials(e) == e.appId = "" \/ e.secret = "" \/ e.tenant = ""

\* lines 35-51 (and 647-663): the := declarations shadow the globals, which
\* therefore keep their values.
loadCredentialsCli(e) ==
    [err |-> MissingCredentials(e),
     appID |-> appID, clientSecret |-> clientSecret, tenantID |-> tenantID]

\* lines 251-262: the globals are assigned, then checked.
loadCredentialsScript(e) ==
    [err |-> MissingCredentials(e),
     appID |-> e.appId, clientSecret |-> e.secret, tenantID |-> e.tenant]

loadCredentials(v, e) ==
    IF v = "cli" THEN loadCredentialsCli(e) ELSE loadCredentialsScript(e)

(***************************************************************************)
(* authenticate of the cli and script programs (lines 54-75, 265-285):     *)
(* loadCredentials, then `az login` with the credential globals in its     *)
(* environment.  ok is the outcome of the subprocess.  The result is the   *)
(* events added to the trace.                                              *)
(***************************************************************************)
authenticateEventsRetry(lc, ok) ==
    IF lc.err THEN <<Error("failed to load credentials")>>
    ELSE <<Exec("az login", <<lc.appID, lc.clientSecret, lc.tenantID>>)>>
            \o (IF ok THEN <<>>
                ELSE <<Exec("az login", <<lc.appID, lc.clientSecret, lc.tenantID>>),
                       Error("authentication failed")>>)

authenticateEvents(lc, ok) ==
    IF lc.err THEN <<Error("failed to load credentials")>>
    ELSE <<Exec("az login", <<lc.appID, lc.clientSecret, lc.tenantID>>)>>
            \o (IF ok THEN <<>> ELSE <<Error("authentication failed")>>)

authenticateFailsOnlyOnCredentials(lc, ok) == lc.err

authenticateFails(lc, ok) == lc.err \/ ~ok

(***************************************************************************)
(* Command assembly.                                                       *)
(***************************************************************************)
FileOpen == " --file \""

FileClose == "\""

RECURSIVE JoinPieces(_, _)
JoinPieces(a, sep) ==
    IF a = <<>> THEN <<>>
    ELSE IF Len(a) = 1 THEN a
         ELSE <<Head(a), sep>> \o JoinPieces(Tail(a), sep)

RECURSIVE FileParamsSkipFirst(_)
FileParamsSkipFirst(fl) ==
    IF Len(fl) <= 1 THEN <<>>
    ELSE <<FileOpen, fl[2], FileClose>> \o FileParamsSkipFirst(Tail(fl))

RECURSIVE FileParams(_)
FileParams(fl) ==
    IF fl = <<>> THEN <<>>
    ELSE <<FileOpen, Head(fl), FileClose>> \o FileParams(Tail(fl))

CommandPrefix == "az aks command invoke "

\* lines 192-204 (and 804-816)
AssembleCli(a, rg, aks, fl) ==
    <<CommandPrefix, rg, " ", aks, " ">> \o JoinPieces(a, " ") \o FileParams(fl)

\* executeAzAksCommand, lines 462-471
AssembleSdk(command, rg, aks, fl) ==
    <<CommandPrefix>> \o command \o <<" --resource-group ", rg, " --name ", aks, " ">>
        \o FileParams(fl)

(***************************************************************************)
(* Inputs of a run.                                                        *)
(***************************************************************************)
WordList == <<"kubectl", "get", "pods", "-A", "-o", "wide">>

ArgLists == {SubSeq(WordList, 1, n) : n \in 0..MaxArgs}

Environments ==
    [appId : {"", "app"}, secret : {"", "pw"}, tenant : {"", "tn"},
     subscription : {NoSub, SubEnv}, rg : {"rg1"}, aks : {"aks1"}]

inputs == <<variant, subcommand, args, env, subFlag, fs, azFormat>>

creds == <<appID, clientSecret, tenantID>>

Init ==
    /\ variant \in {"cli", "script", "sdk"}
    /\ subcommand \in (IF variant = "cli" THEN {"auth", "sub", "status", "invoke"}
                       ELSE IF variant = "script" THEN {"main"} ELSE {"invoke"})
    /\ args \in (IF subcommand = "invoke" THEN ArgLists
                 ELSE IF subcommand = "sub" THEN {<<>>, <<SubOverride>>}
                 ELSE {<<>>})
    /\ env \in Environments
    /\ subFlag \in (IF variant = "sdk" THEN {NoSub, SubOverride} ELSE {NoSub})
    /\ fs \in Trees
    /\ azFormat \in AzFormats
    /\ azActive = SubDefault
    /\ pc = "start"
    /\ appID = "" /\ clientSecret = "" /\ tenantID = ""
    /\ loggedIn = FALSE
    /\ currentSubID = NoSub
    /\ resourceGroup = "" /\ aksName = ""
    /\ files = <<>>
    /\ fullCommand = <<>>
    /\ scans = <<>>
    /\ trace = <<>>
    /\ reported = <<>>
    /\ exitCode = 0

ExitWithoutCode(code) == pc' = "exited" /\ exitCode' = 0

\* log.Fatal, os.Exit(1), or the return from main
Exit(code) == pc' = "exited" /\ exitCode' = code

(***************************************************************************)
(* The cli program: cmd.Execute() runs the handler of the one selected     *)
(* command; an error it returns goes to log.Fatal (lines 223-225).         *)
(***************************************************************************)
\* authCmd.Run, lines 139-145
AuthCmdRun ==
    /\ pc = "start" /\ variant = "cli" /\ subcommand = "auth"
    /\ \E ok \in BOOLEAN :
         LET lc == loadCredentials(variant, env) IN
         /\ appID' = lc.appID /\ clientSecret' = lc.clientSecret
         /\ tenantID' = lc.tenantID
         /\ trace' = trace \o authenticateEvents(lc, ok)
         /\ loggedIn' = IF authenticateFails(lc, ok) THEN loggedIn ELSE TRUE
         /\ Exit(IF authenticateFails(lc, ok) THEN 1 ELSE 0)
    /\ UNCHANGED <<inputs, azActive, currentSubID, resourceGroup, aksName,
                   files, fullCommand, scans, reported>>

\* subscriptionSetCmd.Run with Args: cobra.ExactArgs(1), lines 153-161, and
\* setSubscription, lines 98-107
SubCmdRun ==
    /\ pc = "start" /\ variant = "cli" /\ subcommand = "sub"
    /\ \E ok \in BOOLEAN :
         IF Len(args) # 1
         THEN /\ trace' = Append(trace, Error("accepts 1 arg"))
              /\ azActive' = azActive
              /\ Exit(1)
         ELSE /\ trace' = trace \o <<Exec("az account set", args[1])>>
                    \o (IF ok THEN <<>> ELSE <<Error("failed to set subscription")>>)
              /\ azActive' = IF ok THEN args[1] ELSE azActive
              /\ Exit(IF ok THEN 0 ELSE 1)
    /\ UNCHANGED <<inputs, creds, loggedIn, currentSubID, resourceGroup, aksName,
                   files, fullCommand, scans, reported>>

\* getSubscriptionID, lines 78-95 (and 288-305): ok is the outcome of the
\* subprocess
getSubscriptionID(ok) ==
    IF ~ok THEN [err |-> TRUE, subID |-> NoSub]
    ELSE ExtractSubscriptionID(AzAccountShow(azActive, azFormat))

getSubscriptionIDEvents(ok) ==
    <<Exec("az account show", <<>>)>>
        \o (IF getSubscriptionID(ok).err
            THEN <<Error("failed to get subscription ID")>> ELSE <<>>)

\* statusCmd.Run, lines 168-182
StatusCmdRun ==
    /\ pc = "start" /\ variant = "cli" /\ subcommand = "status"
    /\ \E ok \in BOOLEAN :
         IF ~loggedIn
         THEN /\ trace' = Append(trace, Error("not logged in"))
              /\ reported' = reported
              /\ Exit(1)
         ELSE LET r == getSubscriptionID(ok) IN
              /\ trace' = trace \o getSubscriptionIDEvents(ok)
              /\ reported' = IF r.err THEN reported ELSE <<r.subID>>
              /\ Exit(IF r.err THEN 1 ELSE 0)
    /\ UNCHANGED <<inputs, azActive, creds, loggedIn, currentSubID,
                   resourceGroup, aksName, files, fullCommand, scans>>

\* invokeCmd.Run with Args: cobra.MinimumNArgs(1), lines 190-216
InvokeCmdRun ==
    /\ pc = "start" /\ variant = "cli" /\ subcommand = "invoke"
    /\ \E ok \in BOOLEAN :
         LET d == discoverFiles(variant, fs)
             cmd == AssembleCli(args, resourceGroup, aksName, d.files)
         IN
         IF Len(args) < 1
         THEN /\ trace' = Append(trace, Error("requires at least 1 arg"))
              /\ UNCHANGED <<scans, files, fullCommand>>
              /\ Exit(1)
         ELSE IF d.err
         THEN /\ scans' = Append(scans, ScanRecord(Routine(variant), d))
              /\ trace' = trace \o <<ScanEvent, Error("failed to discover files")>>
              /\ UNCHANGED <<files, fullCommand>>
              /\ Exit(1)
         ELSE /\ scans' = Append(scans, ScanRecord(Routine(variant), d))
              /\ files' = d.files
              /\ fullCommand' = cmd
              /\ trace' = trace \o <<ScanEvent, Exec("bash -c", cmd)>>
                    \o (IF ok THEN <<>> ELSE <<Error("command failed")>>)
              /\ Exit(IF ok THEN 0 ELSE 1)
    /\ UNCHANGED <<inputs, azActive, creds, loggedIn, currentSubID,
                   resourceGroup, aksName, reported>>

(***************************************************************************)
(* The script program: main, lines 338-382, one action per statement       *)
(* group; every error goes to log.Fatal or os.Exit(1).                     *)
(***************************************************************************)
\* lines 340-343
ScriptCheckEnv ==
    /\ pc = "start" /\ variant = "script"
    /\ IF MissingCredentials(env)
       THEN trace' = Append(trace, Error("required environment variables are not set"))
            /\ Exit(1)
       ELSE trace' = trace /\ pc' = "authenticate" /\ exitCode' = exitCode
    /\ UNCHANGED <<inputs, azActive, creds, loggedIn, currentSubID, resourceGroup,
                   aksName, files, fullCommand, scans, reported>>

\* lines 346-348 and authenticate, lines 265-285
ScriptAuthenticate ==
    /\ pc = "authenticate" /\ variant = "script"
    /\ \E ok \in BOOLEAN :
         LET lc == loadCredentials(variant, env) IN
         /\ appID' = lc.appID /\ clientSecret' = lc.clientSecret
         /\ tenantID' = lc.tenantID
         /\ trace' = trace \o authenticateEvents(lc, ok)
         /\ loggedIn' = IF authenticateFails(lc, ok) THEN loggedIn ELSE TRUE
         /\ IF authenticateFails(lc, ok) THEN Exit(1)
            ELSE pc' = "subscription" /\ exitCode' = exitCode
    /\ UNCHANGED <<inputs, azActive, currentSubID, resourceGroup, aksName,
                   files, fullCommand, scans, reported>>

\* lines 351-364 and setSubscription, lines 308-318 (line 316 stores the
\* identifier in the global)
ScriptDefaultSubscription ==
    /\ pc = "subscription" /\ variant = "script"
    /\ \E ok \in BOOLEAN :
         IF env.subscription = NoSub
         THEN /\ trace' = trace \o getSubscriptionIDEvents(ok)
              /\ UNCHANGED <<azActive, currentSubID>>
              /\ IF getSubscriptionID(ok).err THEN Exit(1)
                 ELSE pc' = "status" /\ exitCode' = exitCode
         ELSE /\ trace' = trace \o <<Exec("az account set", env.subscription)>>
                    \o (IF ok THEN <<>> ELSE <<Error("failed to set subscription")>>)
              /\ azActive' = IF ok THEN env.subscription ELSE azActive
              /\ currentSubID' = IF ok THEN env.subscription ELSE currentSubID
              /\ IF ok THEN pc' = "status" /\ exitCode' = exitCode ELSE Exit(1)
    /\ UNCHANGED <<inputs, creds, loggedIn, resourceGroup, aksName,
                   files, fullCommand, scans, reported>>

\* lines 367-371
ScriptPrintStatus ==
    /\ pc = "status" /\ variant = "script"
    /\ \E ok \in BOOLEAN :
         LET r == getSubscriptionID(ok) IN
         /\ trace' = trace \o getSubscriptionIDEvents(ok)
         /\ reported' = IF r.err THEN reported ELSE <<r.subID>>
         /\ IF r.err THEN Exit(1) ELSE pc' = "list" /\ exitCode' = exitCode
    /\ UNCHANGED <<inputs, azActive, creds, loggedIn, currentSubID,
                   resourceGroup, aksName, files, fullCommand, scans>>

\* lines 374-382
ScriptListClusters ==
    /\ pc = "list" /\ variant = "script"
    /\ \E ok \in BOOLEAN :
         /\ trace' = trace \o <<Exec("az aks list", <<>>)>>
               \o (IF ok THEN <<>> ELSE <<Error("failed to list AKS clusters")>>)
         /\ Exit(IF ok THEN 0 ELSE 1)
    /\ UNCHANGED <<inputs, azActive, creds, loggedIn, currentSubID,
                   resourceGroup, aksName, files, fullCommand, scans, reported>>

(***************************************************************************)
(* The sdk program: lines 405-582.  Login and subscription selection are   *)
(* library calls, not subprocesses; ok is the outcome of the library call. *)
(***************************************************************************)
\* authenticate, lines 411-431
authenticateSdk(e, ok) ==
    IF MissingCredentials(e)
    THEN [err |-> TRUE, what |-> "required environment variables are not set",
          loggedIn |-> loggedIn, currentSubID |-> currentSubID]
    ELSE IF ~ok
    THEN [err |-> TRUE, what |-> "failed to create service principal credentials",
          loggedIn |-> loggedIn, currentSubID |-> currentSubID]
    ELSE [err |-> FALSE, what |-> "",
          loggedIn |-> TRUE, currentSubID |-> e.subscription]

setSubscriptionSdkUnguarded(subscriptionID, ok) ==
    IF ~ok
    THEN [err |-> TRUE, what |-> "failed to create subscriptions client",
          currentSubID |-> currentSubID]
    ELSE [err |-> FALSE, what |-> "", currentSubID |-> subscriptionID]

\* setSubscription, lines 434-448
setSubscriptionSdk(subscriptionID, ok) ==
    IF ~loggedIn
    THEN [err |-> TRUE, what |-> "not authenticated", currentSubID |-> currentSubID]
    ELSE IF ~ok
    THEN [err |-> TRUE, what |-> "failed to create subscriptions client",
          currentSubID |-> currentSubID]
    ELSE [err |-> FALSE, what |-> "", currentSubID |-> subscriptionID]

\* getSubscription, lines 451-457
getSubscription ==
    IF ~loggedIn THEN [err |-> TRUE, what |-> "not authenticated", subID |-> NoSub]
    ELSE [err |-> FALSE, what |-> "", subID |-> currentSubID]

\* main, lines 490-502
SdkAuthenticate ==
    /\ pc = "start" /\ variant = "sdk"
    /\ resourceGroup' = env.rg /\ aksName' = env.aks
    /\ \E ok \in BOOLEAN :
         LET r == authenticateSdk(env, ok) IN
         /\ loggedIn' = r.loggedIn
         /\ currentSubID' = r.currentSubID
         /\ IF r.err THEN trace' = Append(trace, Error(r.what)) /\ Exit(1)
            ELSE trace' = trace /\ pc' = "subscription" /\ exitCode' = exitCode
    /\ UNCHANGED <<inputs, azActive, creds, files, fullCommand, scans, reported>>

\* main, lines 505-518
SdkDefaultSubscription ==
    /\ pc = "subscription" /\ variant = "sdk"
    /\ \E ok \in BOOLEAN :
         LET r == IF env.subscription # NoSub
                  THEN setSubscriptionSdk(env.subscription, ok)
                  ELSE [err |-> getSubscription.err, what |-> getSubscription.what,
                        currentSubID |-> currentSubID]
         IN
         /\ currentSubID' = r.currentSubID
         /\ IF r.err THEN trace' = Append(trace, Error(r.what)) /\ Exit(1)
            ELSE trace' = trace /\ pc' = "status" /\ exitCode' = exitCode
    /\ UNCHANGED <<inputs, azActive, creds, loggedIn, resourceGroup, aksName,
                   files, fullCommand, scans, reported>>

\* main, lines 521-525
SdkPrintStatus ==
    /\ pc = "status" /\ variant = "sdk"
    /\ LET r == getSubscription IN
         /\ reported' = IF r.err THEN reported ELSE <<r.subID>>
         /\ IF r.err THEN trace' = Append(trace, Error(r.what)) /\ Exit(1)
            ELSE trace' = trace /\ pc' = "invoke" /\ exitCode' = exitCode
    /\ UNCHANGED <<inputs, azActive, creds, loggedIn, currentSubID,
                   resourceGroup, aksName, files, fullCommand, scans>>

\* cmd.Execute() with Args: cobra.MinimumNArgs(1), invokeCmd.PreExecute and
\* executeAzAksCommand: lines 539, 552-573, 460-487, 579-581.  okSet is the
\* outcome of the library call in setSubscription, ok that of the subprocess.
InvokePreExecute ==
    /\ pc = "invoke" /\ variant = "sdk"
    /\ \E okSet, ok \in BOOLEAN :
         LET s == IF subFlag # NoSub THEN setSubscriptionSdk(subFlag, okSet)
                  ELSE [err |-> FALSE, what |-> "", currentSubID |-> currentSubID]
             d == discoverFiles(variant, fs)
             cmd == AssembleSdk(JoinPieces(args, " "), resourceGroup, aksName, d.files)
         IN
         IF Len(args) < 1
         THEN /\ trace' = Append(trace, Error("requires at least 1 arg"))
              /\ UNCHANGED <<currentSubID, scans, files, fullCommand>>
              /\ Exit(1)
         ELSE IF s.err
         THEN /\ trace' = Append(trace, Error(s.what))
              /\ UNCHANGED <<currentSubID, scans, files, fullCommand>>
              /\ Exit(1)
         ELSE IF d.err
         THEN /\ currentSubID' = s.currentSubID
              /\ scans' = Append(scans, ScanRecord(Routine(variant), d))
              /\ trace' = trace \o <<ScanEvent, Error("failed to discover files")>>
              /\ UNCHANGED <<files, fullCommand>>
              /\ Exit(1)
         ELSE /\ currentSubID' = s.currentSubID
              /\ scans' = Append(scans, ScanRecord(Routine(variant), d))
              /\ files' = d.files
              /\ fullCommand' = cmd
              /\ trace' = trace \o <<ScanEvent, Exec("bash -c", cmd)>>
                    \o (IF ok THEN <<>> ELSE <<Error("command failed")>>)
              /\ Exit(IF ok THEN 0 ELSE 1)
    /\ UNCHANGED <<inputs, azActive, creds, loggedIn, resourceGroup, aksName,
                   reported>>

Next ==
    \/ AuthCmdRun
    \/ SubCmdRun
    \/ StatusCmdRun
    \/ InvokeCmdRun
    \/ ScriptCheckEnv
    \/ ScriptAuthenticate
    \/ ScriptDefaultSubscription
    \/ ScriptPrintStatus
    \/ ScriptListClusters
    \/ SdkAuthenticate
    \/ SdkDefaultSubscription
    \/ SdkPrintStatus
    \/ InvokePreExecute

Spec == Init /\ [][Next]_vars

(***************************************************************************)
(* Discovery harness: the two discovery routines applied, up to MaxScans   *)
(* times, to a directory drawn from Trees.                                 *)
(***************************************************************************)
DiscoverInit ==
    /\ variant \in {"cli", "sdk"}
    /\ subcommand = "invoke"
    /\ args = <<>>
    /\ env \in {e \in Environments : ~MissingCredentials(e) /\ e.subscription = NoSub}
    /\ subFlag = NoSub
    /\ fs \in Trees
    /\ azFormat = "yaml"
    /\ azActive = SubDefault
    /\ pc = "harness"
    /\ appID = "" /\ clientSecret = "" /\ tenantID = ""
    /\ loggedIn = FALSE
    /\ currentSubID = NoSub
    /\ resourceGroup = "" /\ aksName = ""
    /\ files = <<>>
    /\ fullCommand = <<>>
    /\ scans = <<>>
    /\ trace = <<>>
    /\ reported = <<>>
    /\ exitCode = 0

RunDiscoverFiles(routine) ==
    /\ pc = "harness" /\ Len(scans) < MaxScans
    /\ LET d == IF routine = "ReadDir" THEN discoverFilesReadDir(".", fs)
                ELSE discoverFilesWalk(".", fs)
       IN  /\ scans' = Append(scans, ScanRecord(routine, d))
           /\ files' = d.files
           /\ trace' = Append(trace, ScanEvent)
    /\ UNCHANGED <<inputs, azActive, pc, creds, loggedIn, currentSubID,
                   resourceGroup, aksName, fullCommand, reported, exitCode>>

RunDiscoverFilesWalk == RunDiscoverFiles("Walk")

RunDiscoverFilesReadDir == RunDiscoverFiles("ReadDir")

DiscoverNext ==
    \/ RunDiscoverFilesWalk
    \/ RunDiscoverFilesReadDir

SpecDiscover == DiscoverInit /\ [][DiscoverNext]_vars

(***************************************************************************)
(* Harness of the operations guarded by the logged-in flag, entered with   *)
(* the flag in either state: the cli program's status command, run once,   *)
(* and the sdk program's setSubscription and getSubscription, called up to *)
(* MaxCalls times.  A call of the latter two is recorded in the trace      *)
(* before what it does.                                                    *)
(***************************************************************************)
Call(what, arg) == [ev |-> "call", what |-> what, arg |-> arg]

Calls(tr) == SelectSeq(tr, LAMBDA e : e.ev = "call")

GuardedInit ==
    /\ \/ variant = "cli" /\ subcommand = "status" /\ pc = "start"
       \/ variant = "sdk" /\ subcommand = "invoke" /\ pc = "guarded"
    /\ args = <<>>
    /\ env \in {e \in Environments : ~MissingCredentials(e)}
    /\ subFlag = NoSub
    /\ fs \in {t \in Trees : DOMAIN t.kids = {} /\ t.ok}
    /\ azFormat \in AzFormats
    /\ azActive = SubDefault
    /\ appID = "" /\ clientSecret = "" /\ tenantID = ""
    /\ loggedIn \in BOOLEAN
    /\ currentSubID \in {NoSub, SubEnv}
    /\ resourceGroup = "" /\ aksName = ""
    /\ files = <<>>
    /\ fullCommand = <<>>
    /\ scans = <<>>
    /\ trace = <<>>
    /\ reported = <<>>
    /\ exitCode = 0

CallSetSubscription ==
    /\ pc = "guarded" /\ variant = "sdk" /\ Len(Calls(trace)) < MaxCalls
    /\ \E id \in {SubEnv, SubOverride}, ok \in BOOLEAN :
         LET r == setSubscriptionSdk(id, ok) IN
         /\ currentSubID' = r.currentSubID
         /\ trace' = trace \o <<Call("setSubscription", id)>>
               \o (IF r.err THEN <<Error(r.what)>> ELSE <<>>)
    /\ UNCHANGED <<inputs, azActive, pc, creds, loggedIn, resourceGroup, aksName,
                   files, fullCommand, scans, reported, exitCode>>

CallGetSubscription ==
    /\ pc = "guarded" /\ variant = "sdk" /\ Len(Calls(trace)) < MaxCalls
    /\ LET r == getSubscription IN
         /\ reported' = IF r.err THEN reported ELSE <<r.subID>>
         /\ trace' = trace \o <<Call("getSubscription", <<>>)>>
               \o (IF r.err THEN <<Error(r.what)>> ELSE <<>>)
    /\ UNCHANGED <<inputs, azActive, pc, creds, loggedIn, currentSubID,
                   resourceGroup, aksName, files, fullCommand, scans, exitCode>>

GuardedNext ==
    \/ StatusCmdRun
    \/ CallSetSubscription
    \/ CallGetSubscription

SpecGuarded == GuardedInit /\ [][GuardedNext]_vars

(***************************************************************************)
(* Vocabulary of the properties.                                           *)
(***************************************************************************)
Last(s) == s[Len(s)]

Assembled == fullCommand # <<>>

\* the paths of the `--file "<path>"` tokens of a command line, in order
RECURSIVE FileTokenPaths(_)
FileTokenPaths(cmd) ==
    IF cmd = <<>> THEN <<>>
    ELSE IF Head(cmd) = FileOpen /\ Len(cmd) >= 3 /\ cmd[3] = FileClose
         THEN <<cmd[2]>> \o FileTokenPaths(SubSeq(cmd, 4, Len(cmd)))
         ELSE FileTokenPaths(Tail(cmd))

\* how often the `--file` opener occurs in a command line
FileOpenCount(cmd) == Len(SelectSeq(cmd, LAMBDA p : p = FileOpen))

BashRuns(tr) == SelectSeq(tr, LAMBDA e : e.ev = "exec" /\ e.what = "bash -c")

\* every file below a directory, by path: the full recursive listing
RECURSIVE FilePathsUnder(_, _)
FilePathsUnder(node, path) ==
    IF node.kind # "dir" THEN {path}
    ELSE UNION {FilePathsUnder(node.kids[n], Join(path, n)) : n \in DOMAIN node.kids}

RECURSIVE HasUnreadable(_)
HasUnreadable(node) ==
    node.kind = "dir"
        /\ (~node.ok \/ \E n \in DOMAIN node.kids : HasUnreadable(node.kids[n]))

\* whether the traversal a routine makes of a tree meets an unreadable directory
TraversalFails(routine, root) ==
    IF routine = "ReadDir" THEN ~root.ok ELSE HasUnreadable(root)

EmptyDirectory(root) == root.ok /\ DOMAIN root.kids = {}

\* runs whose first step is authentication
AuthenticatingRun ==
    (variant = "cli" /\ subcommand = "auth") \/ variant \in {"script", "sdk"}

(***************************************************************************)
(* C1: the command assembled by invoke holds exactly one `--file "<path>"` *)
(* token per file of the list discovery returned, and no other, in the     *)
(* order of that list.                                                     *)
(***************************************************************************)
C1_OneFileTokenPerFileInOrder ==
    Assembled =>
        /\ scans # <<>> /\ ~Last(scans).err
        /\ FileTokenPaths(fullCommand) = Last(scans).files
        /\ FileOpenCount(fullCommand) = Len(Last(scans).files)

C1_Witness ==
    /\ Assembled /\ pc = "exited"
    /\ Len(Last(scans).files) = 2
    /\ Last(scans).files[1] # Last(scans).files[2]

(***************************************************************************)
(* C2: with one of the three credential variables missing or empty, the    *)
(* run fails at authentication: an error is returned, no subprocess has    *)
(* been run by then, and the logged-in flag is still false.                *)
(***************************************************************************)
SomeCredentialMissing == \E k \in {"appId", "secret", "tenant"} : env[k] = ""

C2_MissingCredentialsFailBeforeSubprocess ==
    SomeCredentialMissing =>
        /\ ~loggedIn
        /\ (AuthenticatingRun /\ pc # "start") =>
              /\ pc = "exited" /\ exitCode # 0
              /\ Len(trace) = 1 /\ trace[1].ev = "error"
              /\ Subprocesses(trace) = <<>>

C2_Witness ==
    /\ variant = "cli" /\ subcommand = "auth" /\ pc = "exited"
    /\ env.appId # "" /\ env.secret # "" /\ env.tenant = ""

(***************************************************************************)
(* C3: with a subscription override that was set successfully, the         *)
(* subscription the status step prints equals the override; after the      *)
(* invoke flag was set successfully, the subscription the session holds    *)
(* (what getSubscription returns) equals the flag's value.                 *)
(***************************************************************************)
C3_StatusReportsOverride ==
    /\ (variant \in {"script", "sdk"} /\ env.subscription # NoSub /\ reported # <<>>)
          => reported = <<env.subscription>>
    /\ (variant = "sdk" /\ subFlag # NoSub /\ scans # <<>>)
          => getSubscription = [err |-> FALSE, what |-> "", subID |-> subFlag]

C3_Witness ==
    /\ variant = "script" /\ env.subscription = SubEnv /\ reported = <<SubEnv>>
    /\ azActive = SubEnv /\ azActive # SubDefault

(***************************************************************************)
(* C4: when the traversal meets a directory it cannot read, discovery      *)
(* returns an error and an empty list, never the files found so far; the   *)
(* invoke handler exits non-zero without assembling or running a command.  *)
(***************************************************************************)
C4_TraversalFailureAborts ==
    scans # <<>> =>
        /\ TraversalFails(Last(scans).routine, fs) => Last(scans).err
        /\ Last(scans).err =>
              /\ Last(scans).files = <<>>
              /\ files = <<>> /\ ~Assembled
              /\ BashRuns(trace) = <<>>
              /\ pc = "exited" /\ exitCode # 0

C4_Witness ==
    /\ scans # <<>> /\ Last(scans).err /\ Last(scans).routine = "Walk"
    /\ fs.ok /\ "a" \in DOMAIN fs.kids /\ fs.kids["a"].kind = "file"
    /\ pc = "exited"

(***************************************************************************)
(* C5: in every program the command line is, in this order, the fixed      *)
(* prefix, the resource group, the cluster name, the user's arguments      *)
(* joined by single spaces, and the file tokens.  Separators (a space, or  *)
(* a flag name) between the parts are allowed.                             *)
(***************************************************************************)
Separators == {" ", " --resource-group ", " --name "}

Parts(cmd) == SelectSeq(cmd, LAMBDA p : p \notin Separators)

C5_PartsInSpecifiedOrder ==
    Assembled =>
        Parts(fullCommand)
            = <<CommandPrefix, resourceGroup, aksName>> \o args \o FileParams(files)

(***************************************************************************)
(* C6 as stated: a run makes at most one directory scan and at most one    *)
(* subprocess execution.                                                   *)
(***************************************************************************)
C6_AtMostOneScanAndOneSubprocess ==
    /\ Len(scans) <= 1
    /\ Len(Subprocesses(trace)) <= 1

(***************************************************************************)
(* C6 amended: a run makes at most one directory scan; the cli and sdk     *)
(* programs run at most one subprocess, and a scan is complete before it   *)
(* starts; the script program scans nothing and runs at most four          *)
(* subprocesses (login, account set or show, account show, aks list).      *)
(***************************************************************************)
C6_ScanThenSubprocess ==
    /\ Len(scans) <= 1
    /\ Len(SelectSeq(trace, LAMBDA e : e.ev = "scan")) = Len(scans)
    /\ variant # "script" => Len(Subprocesses(trace)) <= 1
    /\ variant = "script" =>
          scans = <<>> /\ Len(Subprocesses(trace)) <= 4
    /\ \A i, j \in 1..Len(trace) :
          (trace[i].ev = "scan" /\ trace[j].ev = "exec") => i < j
    /\ BashRuns(trace) # <<>> => scans # <<>>

C6_Witness ==
    \/ variant = "script" /\ Len(Subprocesses(trace)) = 4
    \/ variant = "cli" /\ Len(scans) = 1 /\ Len(BashRuns(trace)) = 1 /\ pc = "exited"

C8_DiscoveryIsFullRecursiveWalk ==
    \A i \in 1..Len(scans) :
        ~scans[i].err =>
            /\ Range(scans[i].files) = FilePathsUnder(fs, ".")
            /\ NoDuplicates(scans[i].files)

(***************************************************************************)
(* C9: on an empty working directory discovery succeeds with an empty      *)
(* list, the assembled command has no `--file` token, and the command is   *)
(* run.                                                                    *)
(***************************************************************************)
C9_EmptyDirectoryGivesNoFileTokens ==
    (EmptyDirectory(fs) /\ scans # <<>>) =>
        /\ Last(scans) = [routine |-> Routine(variant), files |-> <<>>, err |-> FALSE]
        /\ Assembled
        /\ FileOpenCount(fullCommand) = 0
        /\ BashRuns(trace) = <<Exec("bash -c", fullCommand)>>

C9_Witness ==
    /\ EmptyDirectory(fs) /\ scans # <<>> /\ variant = "sdk" /\ pc = "exited"
    /\ exitCode = 0

LoginRuns(tr) == SelectSeq(tr, LAMBDA e : e.ev = "exec" /\ e.what = "az login")

C11_GlobalsHoldEnvironmentCredentials ==
    LoginRuns(trace) # <<>> =>
        /\ <<appID, clientSecret, tenantID>> = <<env.appId, env.secret, env.tenant>>
        /\ \A i \in 1..Len(LoginRuns(trace)) :
              /\ LoginRuns(trace)[i].arg = <<env.appId, env.secret, env.tenant>>
              /\ \A k \in 1..3 : LoginRuns(trace)[i].arg[k] # ""

(***************************************************************************)
(* C12: the logged-in flag is false at process start; it becomes true only *)
(* in an authenticate step with all three credentials present and a login  *)
(* that succeeded; an authenticate that fails leaves it as it was; and no  *)
(* step of a run sets it back to false.                                    *)
(***************************************************************************)
AuthenticateStep ==
    \/ pc = "start" /\ variant = "cli" /\ subcommand = "auth"
    \/ pc = "authenticate" /\ variant = "script"
    \/ pc = "start" /\ variant = "sdk"

C12_LoggedInSetOnlyBySuccessfulAuthenticate ==
    /\ [](pc = "start" => ~loggedIn)
    /\ [][/\ loggedIn => loggedIn'
          /\ (~loggedIn /\ loggedIn') =>
                /\ AuthenticateStep
                /\ ~SomeCredentialMissing
                /\ Len(SelectSeq(trace', LAMBDA e : e.ev = "error")) = 0
                /\ variant # "sdk" =>
                      trace' = Append(trace, Exec("az login", trace'[Len(trace')].arg))
          /\ (AuthenticateStep /\ trace' # <<>> /\ trace'[Len(trace')].ev = "error")
                => loggedIn' = loggedIn]_vars

C12_Witness ==
    /\ loggedIn /\ variant = "script" /\ pc = "exited"
    /\ Len(LoginRuns(trace)) = 1

(***************************************************************************)
(* C13: called with the logged-in flag false, the status command of the    *)
(* cli program and setSubscription and getSubscription of the sdk program  *)
(* return an error, run no subprocess and leave the session's subscription *)
(* identifier as it was.                                                   *)
(***************************************************************************)
GuardedStep ==
    \/ variant = "cli" /\ subcommand = "status" /\ pc = "start" /\ pc' = "exited"
    \/ variant = "sdk" /\ Len(Calls(trace')) = Len(Calls(trace)) + 1

C13_GuardedOperationsRefuseWhenLoggedOut ==
    [][(GuardedStep /\ ~loggedIn) =>
          /\ trace' # <<>> /\ trace'[Len(trace')].ev = "error"
          /\ Subprocesses(trace') = Subprocesses(trace)
          /\ currentSubID' = currentSubID
          /\ reported' = reported
          /\ ~loggedIn']_vars

C13_Witness ==
    /\ ~loggedIn /\ variant = "sdk" /\ currentSubID = SubEnv
    /\ Len(trace) = 4
    /\ trace[1] = Call("setSubscription", SubOverride) /\ trace[2].ev = "error"
    /\ trace[3] = Call("getSubscription", <<>>) /\ trace[4].ev = "error"

====
